---- MODULE Spec2Model ----
(***************************************************************************)
(* D&D 3.5 character sheet (src/streamlit_app.py).                         *)
(*                                                                         *)
(* The application is a Streamlit script: every user interaction commits   *)
(* the touched widget's value into st.session_state and then runs the      *)
(* whole script once, top to bottom.  One such pass is one step of the     *)
(* model.  The character record lives in st.session_state.char; the        *)
(* derived statistics are local variables of the pass that are written     *)
(* into the page.                                                          *)
(*                                                                         *)
(* The file holds the script twice: lines 359-715 repeat lines 1-357.  The *)
(* repeat re-creates widgets under keys the first copy has already used,   *)
(* which Streamlit refuses before the repeat has assigned anything, so the *)
(* state a pass leaves behind is the state the first copy leaves behind.   *)
(* Line numbers below refer to the first copy.                             *)
(***************************************************************************)
EXTENDS Integers, Sequences, FiniteSets, TLC

VARIABLES
    session_state,  \* st.session_state: key -> value (the record is under "char")
    shown,          \* what the last pass wrote into the page; <<>> before any pass
    event,          \* the interaction that triggered the last pass
    hp_before,      \* char.hp_current as the last pass found it
    amount_typed,   \* the last number the user entered into the hp_amount input
    returned        \* the last call of ability_mod on a value of any type

vars == <<session_state, shown, event, hp_before, amount_typed, returned>>

(***************************************************************************)
(* Bounds of the model.                                                    *)
(***************************************************************************)
MaxBase == 20       \* ability base scores range over 1..MaxBase
MaxRacial == 10     \* racial adjustments range over -MaxRacial..MaxRacial
MaxSaveBase == 2    \* fort_base, ref_base, will_base range over 0..MaxSaveBase
MaxMisc == 1        \* save_misc, initiative_misc range over -MaxMisc..MaxMisc
MaxAcBonus == 2     \* each AC component ranges over 0..MaxAcBonus
MaxBab == 5         \* bab ranges over 0..MaxBab
MaxHP == 20         \* hp_max ranges up to MaxHP
MaxAmount == 10     \* amounts entered into hp_amount range up to MaxAmount
MaxNegative == 2    \* negative entries range down to -MaxNegative
MaxTemp == 1        \* entries into the Temp input range over -1..MaxTemp

(***************************************************************************)
(* Python builtins used by the script.                                     *)
(***************************************************************************)
PyNone == "None"

min(a, b) == IF b < a THEN b ELSE a

max(a, b) == IF b > a THEN b ELSE a

\* dict.get(key, default)
get(d, key, default) == IF key \in DOMAIN d THEN d[key] ELSE default

\* d[key] = value
put(d, key, value) ==
    IF key \in DOMAIN d THEN [d EXCEPT ![key] = value]
    ELSE [k \in (DOMAIN d) \cup {key} |-> IF k = key THEN value ELSE d[k]]

(***************************************************************************)
(* Helpers (lines 50-60).                                                  *)
(***************************************************************************)
\* A plausible slip: division that truncates toward zero.
ability_mod_truncating(score) ==
    IF score - 10 >= 0 THEN (score - 10) \div 2 ELSE -((10 - score) \div 2)

\* int(score) is the identity on the integers the script passes in; Python's
\* // and TLA+'s \div both round toward negative infinity.
ability_mod(score) == (score - 10) \div 2

ABI == <<"STR", "DEX", "CON", "INT", "WIS", "CHA">>

ABI_CODES == {ABI[i] : i \in 1..Len(ABI)}

ABI_MAP == [STR |-> "str", DEX |-> "dex", CON |-> "con",
            INT |-> "int", WIS |-> "wis", CHA |-> "cha"]

\* A plausible slip: a total below 0 is raised to 0.
ability_total_clamped(char, ab_code) ==
    LET code == ABI_MAP[ab_code]
    IN  max(0, char[code \o "_base"] + char[code \o "_racial"])

ability_total(char, ab_code) ==
    LET code == ABI_MAP[ab_code]
    IN  char[code \o "_base"] + char[code \o "_racial"]

(***************************************************************************)
(* ability_mod on a value of any type (lines 50-54).  A Python value is a  *)
(* record of its type and its content: num for an int, text (the sequence  *)
(* of its characters) for a str.                                           *)
(***************************************************************************)
PyInt(n) == [type |-> "int", num |-> n, text |-> <<>>]

PyStr(chars) == [type |-> "str", num |-> 0, text |-> chars]

PyNoneValue == [type |-> "NoneType", num |-> 0, text |-> <<>>]

Digit == ("0" :> 0) @@ ("1" :> 1) @@ ("2" :> 2) @@ ("3" :> 3) @@ ("4" :> 4)
         @@ ("5" :> 5) @@ ("6" :> 6) @@ ("7" :> 7) @@ ("8" :> 8) @@ ("9" :> 9)

\* str.strip(): the whitespace at both ends is dropped
RECURSIVE strip(_)
strip(chars) ==
    IF chars = <<>> THEN chars
    ELSE IF Head(chars) = " " THEN strip(Tail(chars))
    ELSE IF chars[Len(chars)] = " " THEN strip(SubSeq(chars, 1, Len(chars) - 1))
    ELSE chars

\* the number a sequence of decimal digits writes
RECURSIVE digits_value(_)
digits_value(digits) ==
    IF digits = <<>> THEN 0
    ELSE 10 * digits_value(SubSeq(digits, 1, Len(digits) - 1))
            + Digit[digits[Len(digits)]]

\* int(x): the integer, or the exception raised (TypeError for None, ValueError
\* for a text that is not an optional sign and decimal digits between
\* optional whitespace)
int(x) ==
    CASE x.type = "int" -> [raised |-> FALSE, value |-> x.num]
      [] x.type = "NoneType" -> [raised |-> TRUE, value |-> 0]
      [] x.type = "str" ->
            LET s == strip(x.text)
                signed == s # <<>> /\ Head(s) \in {"+", "-"}
                body == IF signed THEN Tail(s) ELSE s
            IN  IF body = <<>> \/ \E i \in 1..Len(body) : body[i] \notin DOMAIN Digit
                THEN [raised |-> TRUE, value |-> 0]
                ELSE [raised |-> FALSE,
                      value |-> IF signed /\ Head(s) = "-"
                                THEN -digits_value(body) ELSE digits_value(body)]

\* A plausible slip: the try/except of lines 51-54 is left out.
ability_mod_any_uncaught(score) ==
    LET i == int(score)
    IN  IF i.raised THEN [raised |-> TRUE, value |-> 0]
        ELSE [raised |-> FALSE, value |-> ability_mod(i.value)]

\* lines 50-54 on any value: the exception int() raises is caught and 0 returned
ability_mod_any(score) ==
    LET i == int(score)
    IN  IF i.raised THEN [raised |-> FALSE, value |-> 0]
        ELSE [raised |-> FALSE, value |-> ability_mod(i.value)]

\* ability_mod has not been called (score is the argument it will be called on)
NoCall == [called |-> FALSE, score |-> PyNoneValue, raised |-> FALSE, value |-> 0]

(***************************************************************************)
(* Data model (lines 98-141): Character() with every default.              *)
(***************************************************************************)
Character ==
    [name |-> "", player |-> "", alignment |-> "Neutral", deity |-> "",
     size |-> "Medium", race |-> "Human", character_class |-> "Fighter",
     level |-> 1, xp |-> 0, age |-> 18, gender |-> "", height |-> "",
     weight |-> "", eyes |-> "", hair |-> "", skin |-> "",
     str_base |-> 10, dex_base |-> 10, con_base |-> 10,
     int_base |-> 10, wis_base |-> 10, cha_base |-> 10,
     str_racial |-> 0, dex_racial |-> 0, con_racial |-> 0,
     int_racial |-> 0, wis_racial |-> 0, cha_racial |-> 0,
     hp |-> 0, hit_die |-> "d10", bab |-> 0,
     ac_armor |-> 0, ac_shield |-> 0, ac_natural |-> 0,
     ac_deflection |-> 0, ac_misc |-> 0,
     initiative_misc |-> 0,
     hp_current |-> 0, hp_max |-> 0, hp_temp |-> 0,
     fort_base |-> 0, ref_base |-> 0, will_base |-> 0, save_misc |-> 0,
     speed |-> 30,
     feats |-> PyNone, class_features |-> PyNone, skills |-> PyNone,
     languages |-> PyNone]

(***************************************************************************)
(* Widgets.  A keyed widget keeps its value in st.session_state[key]: the  *)
(* value argument only seeds the key on the pass that creates the widget,  *)
(* and the call returns st.session_state[key].                             *)
(***************************************************************************)
race_options == <<"Human", "Elf", "Dwarf", "Gnome", "Halfling", "Half-Orc", "Half-Elf">>

class_options == <<"Barbarian", "Bard", "Cleric", "Druid", "Fighter", "Monk",
                   "Paladin", "Ranger", "Rogue", "Sorcerer", "Wizard">>

alignment_options == <<"LG", "NG", "CG", "LN", "N", "CN", "LE", "NE", "CE">>

Elements(seq) == {seq[i] : i \in 1..Len(seq)}

\* widget key -> the field of the record the sidebar assigns from it
SidebarField ==
    [name |-> "name", player |-> "player", alignment |-> "alignment",
     race |-> "race", class |-> "character_class", level |-> "level",
     xp |-> "xp", age |-> "age", gender |-> "gender", height |-> "height",
     weight |-> "weight", eyes |-> "eyes", hair |-> "hair", skin |-> "skin"]

\* the value (or option index) each sidebar widget is created with
SidebarSeed(char, key) ==
    CASE key = "alignment" -> alignment_options[4 + 1]
      [] key = "race" ->
            IF char.race \in Elements(race_options)
            THEN char.race ELSE race_options[0 + 1]
      [] key = "class" ->
            IF char.character_class \in Elements(class_options)
            THEN char.character_class ELSE class_options[4 + 1]
      [] key = "level" -> max(1, char.level)
      [] OTHER -> char[SidebarField[key]]

\* lines 149-168: char.<field> = labelled_...(label, key, seed)
Sidebar(ss) ==
    LET char == ss.char
        ss1 == IF DOMAIN SidebarField \subseteq DOMAIN ss THEN ss
               ELSE [k \in (DOMAIN ss) \cup (DOMAIN SidebarField) |->
                       IF k \in DOMAIN ss THEN ss[k] ELSE SidebarSeed(char, k)]
    IN  [ss1 EXCEPT !.char =
            [char EXCEPT !.name = ss1.name,
                         !.player = ss1.player,
                         !.alignment = ss1.alignment,
                         !.race = ss1.race,
                         !.character_class = ss1.class,
                         !.level = ss1.level,
                         !.xp = ss1.xp,
                         !.age = ss1.age,
                         !.gender = ss1.gender,
                         !.height = ss1.height,
                         !.weight = ss1.weight,
                         !.eyes = ss1.eyes,
                         !.hair = ss1.hair,
                         !.skin = ss1.skin]]

\* A plausible slip: min_value and max_value are left out of the call.
number_input_commit_unchecked(old, typed, has_min, min_value, has_max, max_value) ==
    {typed}

\* What the browser commits for a number typed into st.number_input: a number
\* inside [min_value, max_value] is committed as typed.  A number outside is
\* never committed as typed; whether the input refuses it (the stored value
\* stays) or raises it to the nearest limit is Streamlit's business, so both
\* outcomes are allowed.
number_input_commit(old, typed, has_min, min_value, has_max, max_value) ==
    LET low == has_min /\ typed < min_value
        high == has_max /\ typed > max_value
    IN  IF low THEN {old, min_value}
        ELSE IF high THEN {old, max_value}
        ELSE {typed}

(***************************************************************************)
(* Hit points card (lines 182-223).                                        *)
(***************************************************************************)
\* int(st.session_state.get("hp_amount", 0) or 0)
hp_amount(ss) ==
    LET v == get(ss, "hp_amount", 0) IN IF v = 0 THEN 0 ELSE v

\* A plausible slip: the clamp at hp_max is forgotten.
heal_unclamped(char, amt) ==
    [char EXCEPT !.hp_current = char.hp_current + amt]

\* A plausible slip: max where line 193 has min.
heal_max_for_min(char, amt) ==
    [char EXCEPT !.hp_current = max(char.hp_max, char.hp_current + amt)]

\* line 193
heal(char, amt) ==
    [char EXCEPT !.hp_current = min(char.hp_max, char.hp_current + amt)]

\* A plausible slip: the clamp at 0 is forgotten.
damage_unclamped(char, amt) ==
    [char EXCEPT !.hp_current = char.hp_current - amt]

\* line 197
damage(char, amt) ==
    [char EXCEPT !.hp_current = max(0, char.hp_current - amt)]

\* btn is the button whose click triggered this pass ("none" when no button)
HPCard(ss, btn) ==
    LET c0 == ss.char
        c1 == IF btn = "heal" THEN heal(c0, hp_amount(ss)) ELSE c0
        ss1 == IF "hp_amount" \in DOMAIN ss THEN ss ELSE put(ss, "hp_amount", 0)
        c2 == IF btn = "damage" THEN damage(c1, hp_amount(ss1)) ELSE c1
        ss2 == IF "hp_temp" \in DOMAIN ss1 THEN ss1
               ELSE put(ss1, "hp_temp", c2.hp_temp)
        c3 == [c2 EXCEPT !.hp_temp = ss2.hp_temp]
        ss3 == IF "nonlethal" \in DOMAIN ss2 THEN ss2
               ELSE put(ss2, "nonlethal", get(ss2, "nonlethal", 0))
    IN  put(ss3, "char", c3)

(***************************************************************************)
(* Derived statistics (lines 176-180 and 228-272).                         *)
(***************************************************************************)
AbilityCards(char) ==
    [ab \in ABI_CODES |->
        LET total == ability_total(char, ab)
        IN  [total |-> total, mod |-> ability_mod(total)]]

\* A plausible slip: every save reads CON.
SavingThrows_all_con(char) ==
    [fort |-> char.fort_base + ability_mod(ability_total(char, "CON")) + char.save_misc,
     ref |-> char.ref_base + ability_mod(ability_total(char, "CON")) + char.save_misc,
     will |-> char.will_base + ability_mod(ability_total(char, "CON")) + char.save_misc]

SavingThrows(char) ==
    [fort |-> char.fort_base + ability_mod(ability_total(char, "CON")) + char.save_misc,
     ref |-> char.ref_base + ability_mod(ability_total(char, "DEX")) + char.save_misc,
     will |-> char.will_base + ability_mod(ability_total(char, "WIS")) + char.save_misc]

\* A plausible slip: the miscellaneous initiative bonus is left out.
Initiative_no_misc(char) ==
    ability_mod(ability_total(char, "DEX"))

\* line 240
Initiative(char) ==
    ability_mod(ability_total(char, "DEX")) + char.initiative_misc

\* A plausible slip: touch AC keeps the natural armor bonus.
ArmorClass_touch_natural(char) ==
    LET dex_mod == ability_mod(ability_total(char, "DEX"))
    IN  [ac_total |-> 10 + char.ac_armor + char.ac_shield + dex_mod
                         + char.ac_natural + char.ac_deflection + char.ac_misc,
         touch_ac |-> 10 + dex_mod + char.ac_natural + char.ac_deflection + char.ac_misc,
         flat_ac |-> 10 + char.ac_armor + char.ac_shield + char.ac_natural
                        + char.ac_deflection + char.ac_misc]

\* A plausible slip: the shield bonus is left out of the normal AC.
ArmorClass_no_shield(char) ==
    LET dex_mod == ability_mod(ability_total(char, "DEX"))
    IN  [ac_total |-> 10 + char.ac_armor + dex_mod
                         + char.ac_natural + char.ac_deflection + char.ac_misc,
         touch_ac |-> 10 + dex_mod + char.ac_deflection + char.ac_misc,
         flat_ac |-> 10 + char.ac_armor + char.ac_shield + char.ac_natural
                        + char.ac_deflection + char.ac_misc]

\* lines 249-252
ArmorClass(char) ==
    LET dex_mod == ability_mod(ability_total(char, "DEX"))
    IN  [ac_total |-> 10 + char.ac_armor + char.ac_shield + dex_mod
                         + char.ac_natural + char.ac_deflection + char.ac_misc,
         touch_ac |-> 10 + dex_mod + char.ac_deflection + char.ac_misc,
         flat_ac |-> 10 + char.ac_armor + char.ac_shield + char.ac_natural
                        + char.ac_deflection + char.ac_misc]

\* A plausible slip: ranged attacks read STR like melee.
AttackBonus_ranged_str(char) ==
    [melee |-> char.bab + ability_mod(ability_total(char, "STR")),
     ranged |-> char.bab + ability_mod(ability_total(char, "STR")),
     grapple |-> char.bab + ability_mod(ability_total(char, "STR"))]

AttackBonus(char) ==
    [melee |-> char.bab + ability_mod(ability_total(char, "STR")),
     ranged |-> char.bab + ability_mod(ability_total(char, "DEX")),
     grapple |-> char.bab + ability_mod(ability_total(char, "STR"))]

(***************************************************************************)
(* Tabs (lines 274-357).                                                   *)
(***************************************************************************)
\* the keyed widgets of the tabs and the value each is created with
TabSeed ==
    [wpn1 |-> "Longsword", wpn1_atk |-> "+0", wpn1_dmg |-> "1d8/",
     wpn2 |-> "Shortbow", wpn2_atk |-> "+0", wpn2_dmg |-> "1d6/",
     melee_notes |-> "", ranged_notes |-> "",
     spell_level |-> 0, spellbook_notes |-> "",
     gear_weapons |-> "", gear_tools |-> "", wealth_gp |-> 0,
     notes_bg |-> "", notes_allies |-> "", notes_other |-> ""]

\* lines 294-305; "--" stands for the em dash of Speak Language
SKILLS_35 ==
    <<<<"Appraise", "INT">>, <<"Balance", "DEX">>, <<"Bluff", "CHA">>,
      <<"Climb", "STR">>, <<"Concentration", "CON">>,
      <<"Craft (Alchemy)", "INT">>, <<"Craft (Armorsmithing)", "INT">>,
      <<"Craft (Weaponsmithing)", "INT">>, <<"Craft (Other)", "INT">>,
      <<"Decipher Script", "INT">>, <<"Diplomacy", "CHA">>,
      <<"Disable Device", "INT">>, <<"Disguise", "CHA">>,
      <<"Escape Artist", "DEX">>, <<"Forgery", "INT">>,
      <<"Gather Information", "CHA">>, <<"Handle Animal", "CHA">>,
      <<"Heal", "WIS">>, <<"Hide", "DEX">>, <<"Intimidate", "CHA">>,
      <<"Jump", "STR">>, <<"Knowledge (Arcana)", "INT">>,
      <<"Knowledge (Architecture)", "INT">>,
      <<"Knowledge (Dungeoneering)", "INT">>,
      <<"Knowledge (Geography)", "INT">>, <<"Knowledge (History)", "INT">>,
      <<"Knowledge (Local)", "INT">>, <<"Knowledge (Nature)", "INT">>,
      <<"Knowledge (Nobility)", "INT">>, <<"Knowledge (Religion)", "INT">>,
      <<"Knowledge (The Planes)", "INT">>, <<"Listen", "WIS">>,
      <<"Move Silently", "DEX">>, <<"Open Lock", "DEX">>,
      <<"Perform", "CHA">>, <<"Profession", "WIS">>, <<"Ride", "DEX">>,
      <<"Search", "INT">>, <<"Sense Motive", "WIS">>,
      <<"Sleight of Hand", "DEX">>, <<"Speak Language", "--">>,
      <<"Spellcraft", "INT">>, <<"Spot", "WIS">>, <<"Survival", "WIS">>,
      <<"Swim", "STR">>, <<"Tumble", "DEX">>, <<"Use Magic Device", "CHA">>,
      <<"Use Rope", "DEX">>>>

\* line 307: one row per skill
skills_rows ==
    [i \in 1..Len(SKILLS_35) |->
        [Skill |-> SKILLS_35[i][1], Ability |-> SKILLS_35[i][2],
         Ranks |-> 0, Misc |-> 0, Class |-> TRUE]]

\* lines 306-310: the table is seeded once per session; the editor returns the
\* table it was given when no cell was edited
SkillsTab(ss) ==
    IF "skills_table" \in DOMAIN ss /\ get(ss, "skills_table_seed", PyNone) = "3.5"
    THEN ss
    ELSE put(put(ss, "skills_table", skills_rows), "skills_table_seed", "3.5")

\* A plausible slip: the record is exported under a key of its own instead of
\* being flattened into the top level.
export_dict_nested(ss) ==
    [character |-> ss.char,
     feats |-> get(ss, "feats_tags", <<>>),
     class_features |-> get(ss, "features_tags", <<>>),
     skills_table |-> get(ss, "skills_table", <<>>),
     spells_known |-> get(ss, "spells_known", <<>>),
     spellbook_notes |-> get(ss, "spellbook_notes", ""),
     languages |-> get(ss, "languages", <<>>),
     gear |-> [weapons |-> get(ss, "gear_weapons", ""),
               tools |-> get(ss, "gear_tools", ""),
               wealth_gp |-> get(ss, "wealth_gp", 0)],
     notes |-> [background |-> get(ss, "notes_bg", ""),
                allies |-> get(ss, "notes_allies", ""),
                other |-> get(ss, "notes_other", "")]]

\* lines 337-355: asdict(char), then update() with the collections and notes
export_dict(ss) ==
    LET char == ss.char
        update == [feats |-> get(ss, "feats_tags", <<>>),
                   class_features |-> get(ss, "features_tags", <<>>),
                   skills_table |-> get(ss, "skills_table", <<>>),
                   spells_known |-> get(ss, "spells_known", <<>>),
                   spellbook_notes |-> get(ss, "spellbook_notes", ""),
                   languages |-> get(ss, "languages", <<>>),
                   gear |-> [weapons |-> get(ss, "gear_weapons", ""),
                             tools |-> get(ss, "gear_tools", ""),
                             wealth_gp |-> get(ss, "wealth_gp", 0)],
                   notes |-> [background |-> get(ss, "notes_bg", ""),
                              allies |-> get(ss, "notes_allies", ""),
                              other |-> get(ss, "notes_other", "")]]
    IN  [k \in (DOMAIN char) \cup (DOMAIN update) |->
            IF k \in DOMAIN update THEN update[k] ELSE char[k]]

\* the session keys that hold a tag list (lines 315, 316, 321, 326)
TagKeys == {"feats_tags", "features_tags", "spells_known", "languages"}

\* no form of this pass was submitted
NoForm == [key |-> "", val |-> ""]

\* list.remove(t): the first occurrence of t is taken out
remove(list, t) ==
    LET i == CHOOSE j \in 1..Len(list) :
                 list[j] = t /\ \A k \in 1..(j - 1) : list[k] # t
    IN  SubSeq(list, 1, i - 1) \o SubSeq(list, i + 1, Len(list))

\* A plausible slip: the membership test of line 85 is left out.
taglist_no_membership_test(ss, key, form) ==
    LET ss1 == IF key \in DOMAIN ss THEN ss ELSE put(ss, key, <<>>)
        submitted == form.key = key
        val == form.val
    IN  IF submitted /\ val # ""
        THEN put(ss1, key, Append(ss1[key], val))
        ELSE ss1

\* lines 78-95; form is the form whose Add button triggered this pass and the
\* text it held
taglist(ss, key, form) ==
    LET ss1 == IF key \in DOMAIN ss THEN ss ELSE put(ss, key, <<>>)
        submitted == form.key = key
        val == form.val
    IN  IF submitted /\ val # ""
        THEN IF val \notin Elements(ss1[key])
             THEN put(ss1, key, Append(ss1[key], val))
             ELSE ss1
        ELSE ss1

\* lines 274-335
Tabs(ss, form) ==
    LET ss1 == IF DOMAIN TabSeed \subseteq DOMAIN ss THEN ss
               ELSE [k \in (DOMAIN ss) \cup (DOMAIN TabSeed) |->
                       IF k \in DOMAIN ss THEN ss[k] ELSE TabSeed[k]]
        ss2 == SkillsTab(ss1)
        ss3 == taglist(ss2, "feats_tags", form)
        ss4 == taglist(ss3, "features_tags", form)
        ss5 == taglist(ss4, "spells_known", form)
    IN  taglist(ss5, "languages", form)

(***************************************************************************)
(* One pass of the script over the session state ss0 (lines 143-357): btn  *)
(* is the button and form the tag form whose click triggered the pass.     *)
(* The tabs assign nothing to the record, so the page is computed from the *)
(* record the hit points card leaves behind.                               *)
(***************************************************************************)
\* A plausible slip: the guard of line 143 is left out, so every pass starts
\* from a new record.
session_init_every_pass(ss0) ==
    put(ss0, "char", Character)

\* lines 143-144
session_init(ss0) ==
    IF "char" \in DOMAIN ss0 THEN ss0 ELSE put(ss0, "char", Character)

\* what a pass writes into the page: the ability cards computed at lines
\* 176-180 and the values of char rendered at lines 207-209 and 228-272
Page(cards, char) ==
    [cards |-> cards,
     hp_current |-> char.hp_current,
     hp_max |-> char.hp_max,
     saves |-> SavingThrows(char),
     ini_total |-> Initiative(char),
     speed |-> char.speed,
     ac |-> ArmorClass(char),
     bab |-> char.bab,
     attack |-> AttackBonus(char)]

\* A plausible slip: the initiative is kept on the record as a field of its own.
ScriptRun_storing_initiative(ss0, btn, form) ==
    LET ss1 == session_init(ss0)
        ss2 == Sidebar(ss1)
        cards == AbilityCards(ss2.char)
        ss3 == HPCard(ss2, btn)
        char == ss3.char
        kept == [k \in (DOMAIN char) \cup {"ini_total"} |->
                    IF k = "ini_total" THEN Initiative(char) ELSE char[k]]
    IN  [ss |-> Tabs(put(ss3, "char", kept), form), shown |-> Page(cards, char)]

\* A plausible slip: the ability cards write the DEX total back into dex_base.
ScriptRun_folding_racial(ss0, btn, form) ==
    LET ss1 == session_init(ss0)
        ss2 == Sidebar(ss1)
        cards == AbilityCards(ss2.char)
        folded == [ss2.char EXCEPT !.dex_base = ability_total(ss2.char, "DEX")]
        ss3 == HPCard(put(ss2, "char", folded), btn)
        char == ss3.char
    IN  [ss |-> Tabs(ss3, form), shown |-> Page(cards, char)]

ScriptRun(ss0, btn, form) ==
    LET ss1 == session_init(ss0)
        ss2 == Sidebar(ss1)
        cards == AbilityCards(ss2.char)
        ss3 == HPCard(ss2, btn)
        char == ss3.char
    IN  [ss |-> Tabs(ss3, form), shown |-> Page(cards, char)]

(***************************************************************************)
(* Steps: one interaction, then one pass.                                  *)
(***************************************************************************)
Rendered == "char" \in DOMAIN session_state

Pass(ss0, btn, form, ev) ==
    \E run \in {ScriptRun(ss0, btn, form)} :
        /\ session_state' = run.ss
        /\ shown' = run.shown
        /\ event' = ev
        /\ hp_before' = IF "char" \in DOMAIN ss0
                        THEN ss0.char.hp_current ELSE Character.hp_current
        /\ UNCHANGED returned

\* the page is opened or reloaded: a pass with no widget touched
Rerun ==
    /\ Pass(session_state, "none", NoForm, [type |-> "rerun", typed |-> 0])
    /\ UNCHANGED amount_typed

\* lines 191-193
ClickHeal ==
    /\ Rendered
    /\ Pass(session_state, "heal", NoForm, [type |-> "heal", typed |-> 0])
    /\ UNCHANGED amount_typed

\* lines 195-197
ClickDamage ==
    /\ Rendered
    /\ Pass(session_state, "damage", NoForm, [type |-> "damage", typed |-> 0])
    /\ UNCHANGED amount_typed

\* line 194: st.number_input(" ", key="hp_amount", min_value=0, step=1)
EditAmount ==
    /\ Rendered
    /\ \E typed \in (-MaxNegative)..MaxAmount :
         \E v \in number_input_commit(session_state.hp_amount, typed,
                                      TRUE, 0, FALSE, 0) :
            /\ Pass(put(session_state, "hp_amount", v), "none", NoForm,
                    [type |-> "amount", typed |-> typed])
            /\ amount_typed' = typed

\* line 220: labelled_number("Temp", "hp_temp", char.hp_temp, min_value=0)
EditTemp ==
    /\ Rendered
    /\ \E typed \in (-1)..MaxTemp :
         \E v \in number_input_commit(session_state.hp_temp, typed,
                                      TRUE, 0, FALSE, 0) :
            Pass(put(session_state, "hp_temp", v), "none", NoForm,
                 [type |-> "temp", typed |-> typed])
    /\ UNCHANGED amount_typed

NoEvent == [type |-> "none", typed |-> 0]

(***************************************************************************)
(* The application as shipped: a new session, nothing in session_state.    *)
(***************************************************************************)
Init ==
    /\ session_state = <<>>
    /\ shown = <<>>
    /\ event = NoEvent
    /\ hp_before = Character.hp_current
    /\ amount_typed = 0
    /\ returned = NoCall

Next == Rerun \/ ClickHeal \/ ClickDamage \/ EditAmount \/ EditTemp

Spec == Init /\ [][Next]_vars

(***************************************************************************)
(* The derived statistics over arbitrary records: the session holds a      *)
(* record whose engine fields are drawn from bounded sets, and a pass      *)
(* renders it.                                                             *)
(***************************************************************************)
Opened == ScriptRun(<<>>, "none", NoForm).ss

Bases == 1..MaxBase

Racials == (-MaxRacial)..MaxRacial

SampleBases == {7, 10, 14, 16}

\* one ability takes every base and every racial adjustment, the others the defaults
AbilityRecords ==
    {[Opened.char EXCEPT ![ABI_MAP[a] \o "_base"] = b,
                         ![ABI_MAP[a] \o "_racial"] = r] :
        a \in ABI_CODES, b \in Bases, r \in Racials}

SaveRecords ==
    {[Opened.char EXCEPT !.con_base = c, !.dex_base = d, !.wis_base = w,
                         !.fort_base = f, !.ref_base = r, !.will_base = l,
                         !.save_misc = m] :
        c \in {7, 10}, d \in {10, 14}, w \in {10, 16},
        f \in 0..MaxSaveBase, r \in 0..MaxSaveBase, l \in 0..MaxSaveBase,
        m \in (-MaxMisc)..MaxMisc}

ArmorRecords ==
    {[Opened.char EXCEPT !.dex_base = d, !.ac_armor = a, !.ac_shield = s,
                         !.ac_natural = n, !.ac_deflection = f, !.ac_misc = m] :
        d \in {7, 10, 14}, a \in 0..MaxAcBonus, s \in 0..MaxAcBonus,
        n \in 0..MaxAcBonus, f \in 0..MaxAcBonus, m \in 0..MaxAcBonus}

AttackRecords ==
    {[Opened.char EXCEPT !.str_base = s, !.str_racial = sr, !.dex_base = d,
                         !.dex_racial = dr, !.bab = b, !.initiative_misc = m] :
        s \in SampleBases, sr \in {0, 2}, d \in SampleBases, dr \in {-2, 0},
        b \in 0..MaxBab, m \in (-MaxMisc)..MaxMisc}

EngineRecords == AbilityRecords \cup SaveRecords \cup ArmorRecords \cup AttackRecords

InitEngine ==
    /\ session_state \in {put(Opened, "char", c) : c \in EngineRecords}
    /\ shown = <<>>
    /\ event = NoEvent
    /\ hp_before = session_state.char.hp_current
    /\ amount_typed = 0
    /\ returned = NoCall

NextEngine == Rerun

SpecEngine == InitEngine /\ [][NextEngine]_vars

(***************************************************************************)
(* Heal and Damage over arbitrary records: the session holds a record      *)
(* whose hit points are drawn from bounded sets.                           *)
(***************************************************************************)
HpSlack == 2        \* hit points start up to HpSlack outside 0..MaxHP

HpSession(hp_max, hp_current) ==
    put(Opened, "char", [Opened.char EXCEPT !.hp_max = hp_max,
                                            !.hp_current = hp_current])

InitHpOf(sessions) ==
    /\ session_state \in sessions
    /\ shown = <<>>
    /\ event = NoEvent
    /\ hp_before = session_state.char.hp_current
    /\ amount_typed = 0
    /\ returned = NoCall

\* any record, hp_current inside or outside 0..hp_max
InitHpAny ==
    InitHpOf({HpSession(m, c) : m \in (-HpSlack)..MaxHP,
                                c \in (-HpSlack)..(MaxHP + HpSlack)})

\* records with 0 <= hp_current <= hp_max
InitHp ==
    InitHpOf(UNION {{HpSession(m, c) : c \in 0..m} : m \in 0..MaxHP})

NextHp == Rerun \/ ClickHeal \/ ClickDamage \/ EditAmount

SpecHpAny == InitHpAny /\ [][NextHp]_vars

SpecHp == InitHp /\ [][NextHp]_vars

(***************************************************************************)
(* Tag lists: the Add forms and the remove buttons of the four tag lists,  *)
(* from a new session.                                                     *)
(***************************************************************************)
\* the texts submitted through an Add form; "" is a submit with the box empty
TagValues == {"Power Attack", "power attack", ""}

\* lines 81-86: the Add button of the form of one tag list is clicked
AddTag ==
    /\ Rendered
    /\ \E key \in TagKeys, val \in TagValues :
         Pass(session_state, "none", [key |-> key, val |-> val],
              [type |-> "add", typed |-> 0, key |-> key, val |-> val,
               before |-> session_state[key]])
    /\ UNCHANGED amount_typed

\* line 94: the remove button of one tag is clicked; its on_click callback runs
\* before the pass
RemoveTag ==
    /\ Rendered
    /\ \E key \in TagKeys :
         \E i \in 1..Len(session_state[key]) :
            LET t == session_state[key][i]
            IN  Pass(put(session_state, key, remove(session_state[key], t)),
                     "none", NoForm,
                     [type |-> "remove", typed |-> 0, key |-> key, val |-> t,
                      before |-> session_state[key]])
    /\ UNCHANGED amount_typed

NextTags == Rerun \/ AddTag \/ RemoveTag

SpecTags == Init /\ [][NextTags]_vars

(***************************************************************************)
(* The whole sheet over several records: the session is new, or it holds a *)
(* record with some engine fields and hit points away from the defaults;   *)
(* the user heals, damages, edits the amount and edits the level.          *)
(***************************************************************************)
MaxLevelTyped == 2  \* levels entered into the Level input range over 0..MaxLevelTyped

SheetHP == 2        \* the hp_max of the records that can be healed

\* line 157: labelled_number("Level", "level", ..., min_value=1, max_value=20)
EditLevel ==
    /\ Rendered
    /\ \E typed \in 0..MaxLevelTyped :
         \E v \in number_input_commit(session_state.level, typed,
                                      TRUE, 1, TRUE, 20) :
            Pass(put(session_state, "level", v), "none", NoForm,
                 [type |-> "level", typed |-> typed])
    /\ UNCHANGED amount_typed

SheetRecords ==
    {[Opened.char EXCEPT !.dex_base = d, !.dex_racial = dr, !.bab = MaxBab,
                         !.hp_max = m, !.hp_current = c] :
        d \in {7, 14}, dr \in {-2, 0}, m \in {0, SheetHP}, c \in {0, SheetHP}}

InitSheet ==
    /\ session_state \in
          {<<>>} \cup {put(Opened, "char", c) :
                          c \in {r \in SheetRecords : r.hp_current <= r.hp_max}}
    /\ shown = <<>>
    /\ event = NoEvent
    /\ hp_before = IF "char" \in DOMAIN session_state
                   THEN session_state.char.hp_current ELSE Character.hp_current
    /\ amount_typed = 0
    /\ returned = NoCall

NextSheet == Rerun \/ ClickHeal \/ ClickDamage \/ EditAmount \/ EditLevel

SpecSheet == InitSheet /\ [][NextSheet]_vars

(***************************************************************************)
(* ability_mod called on values of any type: integers, texts over a small  *)
(* alphabet, and None.                                                     *)
(***************************************************************************)
MaxTextLen == 3     \* texts have at most MaxTextLen characters

\* digits, signs, whitespace, a letter and a decimal point
TextChars == {"0", "7", "-", "+", " ", "a", "."}

RECURSIVE Texts(_)
Texts(n) ==
    IF n = 0 THEN {<<>>}
    ELSE LET shorter == Texts(n - 1)
         IN  shorter \cup {Append(t, c) : t \in shorter, c \in TextChars}

Scores ==
    {PyInt(n) : n \in 0..MaxBase} \cup {PyStr(t) : t \in Texts(MaxTextLen)}
        \cup {PyNoneValue}

\* the argument is chosen and ability_mod is about to be called on it
InitCall ==
    /\ session_state = <<>>
    /\ shown = <<>>
    /\ event = NoEvent
    /\ hp_before = Character.hp_current
    /\ amount_typed = 0
    /\ returned \in {[NoCall EXCEPT !.score = score] : score \in Scores}

CallAbilityMod ==
    /\ ~returned.called
    /\ \E r \in {ability_mod_any(returned.score)} :
         returned' = [returned EXCEPT !.called = TRUE,
                                      !.raised = r.raised, !.value = r.value]
    /\ UNCHANGED <<session_state, shown, event, hp_before, amount_typed>>

NextCall == CallAbilityMod

SpecCall == InitCall /\ [][NextCall]_vars

(***************************************************************************)
(* Properties.                                                             *)
(***************************************************************************)
char_now == session_state.char

PageShown == shown # <<>>

\* floor(x / 2), stated without division: the m with 2m <= x < 2m + 2
FloorHalf(x) ==
    CHOOSE m \in (IF x < 0 THEN x ELSE 0)..(IF x < 0 THEN 0 ELSE x) :
        2 * m <= x /\ x < 2 * m + 2

Modifier(total) == FloorHalf(total - 10)

\* the two fields of the record behind each ability code
BaseOf == [STR |-> "str_base", DEX |-> "dex_base", CON |-> "con_base",
           INT |-> "int_base", WIS |-> "wis_base", CHA |-> "cha_base"]

RacialOf == [STR |-> "str_racial", DEX |-> "dex_racial", CON |-> "con_racial",
             INT |-> "int_racial", WIS |-> "wis_racial", CHA |-> "cha_racial"]

BoundaryMods == (10 :> 0) @@ (11 :> 0) @@ (9 :> -1) @@ (20 :> 5) @@ (1 :> -5) @@ (7 :> -2)

\* C1: the modifier shown for a score s is floor((s - 10) / 2), rounded toward
\* negative infinity: 2*mod <= s - 10 < 2*mod + 2, and the scores 10, 11, 9, 20,
\* 1 and 7 give 0, 0, -1, 5, -5 and -2.
C1_ModifierIsFloor ==
    PageShown =>
        \A ab \in ABI_CODES :
            LET s == shown.cards[ab].total
                m == shown.cards[ab].mod
            IN  /\ 2 * m <= s - 10
                /\ s - 10 < 2 * m + 2
                /\ s \in DOMAIN BoundaryMods => m = BoundaryMods[s]

\* a pass rendered a score of 7 with modifier -2 (not -1)
C1_Witness ==
    /\ PageShown
    /\ \E ab \in ABI_CODES : shown.cards[ab].total = 7 /\ shown.cards[ab].mod = -2
    /\ event.type = "rerun"

\* C2: the total shown for every ability is its base plus its racial adjustment,
\* with no clamping: base 1 and racial -10 give total -9 and modifier -10.
C2_TotalIsBasePlusRacial ==
    PageShown =>
        \A ab \in ABI_CODES :
            LET b == char_now[BaseOf[ab]]
                r == char_now[RacialOf[ab]]
            IN  /\ shown.cards[ab].total = b + r
                /\ shown.cards[ab].mod = Modifier(b + r)
                /\ (b = 1 /\ r = -10) =>
                      shown.cards[ab].total = -9 /\ shown.cards[ab].mod = -10

\* base 1, racial -10 was rendered as -9 with modifier -10
C2_Witness ==
    /\ PageShown
    /\ char_now.wis_base = 1 /\ char_now.wis_racial = -10
    /\ shown.cards["WIS"].total = -9 /\ shown.cards["WIS"].mod = -10

\* C3: Fortitude = fort_base + modifier(CON total) + save_misc, Reflex = ref_base
\* + modifier(DEX total) + save_misc, Will = will_base + modifier(WIS total) +
\* save_misc, with the one save_misc in all three.
C3_SavingThrows ==
    PageShown =>
        LET c == char_now
        IN  /\ shown.saves.fort =
                 c.fort_base + Modifier(c.con_base + c.con_racial) + c.save_misc
            /\ shown.saves.ref =
                 c.ref_base + Modifier(c.dex_base + c.dex_racial) + c.save_misc
            /\ shown.saves.will =
                 c.will_base + Modifier(c.wis_base + c.wis_racial) + c.save_misc

\* three different bases, three different modifiers and a save_misc of 1
C3_Witness ==
    /\ PageShown
    /\ char_now.con_base = 7 /\ char_now.dex_base = 14 /\ char_now.wis_base = 16
    /\ char_now.fort_base = 2 /\ char_now.ref_base = 1 /\ char_now.will_base = 0
    /\ char_now.save_misc = 1
    /\ shown.saves = [fort |-> 1, ref |-> 4, will |-> 4]

\* C4: normal AC = 10 + armor + shield + DEX modifier + natural + deflection +
\* misc; touch AC = 10 + DEX modifier + deflection + misc; flat-footed AC = 10 +
\* armor + shield + natural + deflection + misc.
C4_ArmorClass ==
    PageShown =>
        LET c == char_now
            dex == Modifier(c.dex_base + c.dex_racial)
        IN  /\ shown.ac.ac_total = 10 + c.ac_armor + c.ac_shield + dex
                                      + c.ac_natural + c.ac_deflection + c.ac_misc
            /\ shown.ac.touch_ac = 10 + dex + c.ac_deflection + c.ac_misc
            /\ shown.ac.flat_ac = 10 + c.ac_armor + c.ac_shield + c.ac_natural
                                     + c.ac_deflection + c.ac_misc

\* every component non-zero and a DEX modifier of +2
C4_Witness ==
    /\ PageShown
    /\ char_now.dex_base = 14
    /\ char_now.ac_armor = 2 /\ char_now.ac_shield = 1 /\ char_now.ac_natural = 1
    /\ char_now.ac_deflection = 2 /\ char_now.ac_misc = 1
    /\ shown.ac = [ac_total |-> 19, touch_ac |-> 15, flat_ac |-> 17]

\* C5: melee = bab + STR modifier, ranged = bab + DEX modifier, grapple = bab +
\* STR modifier (equal to melee); str 16+2, dex 14+0, bab 5 give +9 and +7.
C5_AttackBonus ==
    PageShown =>
        LET c == char_now
        IN  /\ shown.attack.melee = c.bab + Modifier(c.str_base + c.str_racial)
            /\ shown.attack.ranged = c.bab + Modifier(c.dex_base + c.dex_racial)
            /\ shown.attack.grapple = c.bab + Modifier(c.str_base + c.str_racial)
            /\ shown.attack.grapple = shown.attack.melee
            /\ (/\ c.str_base = 16 /\ c.str_racial = 2
                /\ c.dex_base = 14 /\ c.dex_racial = 0 /\ c.bab = 5) =>
                  shown.attack.melee = 9 /\ shown.attack.ranged = 7

\* the record of the end-to-end scenario was rendered
C5_Witness ==
    /\ PageShown
    /\ char_now.str_base = 16 /\ char_now.str_racial = 2
    /\ char_now.dex_base = 14 /\ char_now.dex_racial = 0 /\ char_now.bab = 5
    /\ shown.attack = [melee |-> 9, ranged |-> 7, grapple |-> 9]

\* the amount the last Heal or Damage click read from the hp_amount input
amount_read == session_state.hp_amount

\* x is the smaller of a and b
IsMin(x, a, b) == x <= a /\ x <= b /\ (x = a \/ x = b)

\* x is the larger of a and b
IsMax(x, a, b) == x >= a /\ x >= b /\ (x = a \/ x = b)

\* C6: a Heal click with an amount >= 0 leaves hp_current = min(hp_max,
\* hp_current + amount), which never exceeds hp_max: hp_max 20, hp_current 18
\* and amount 10 give 20.
C6_HealIsMin ==
    event.type = "heal" =>
        /\ amount_read >= 0
        /\ IsMin(char_now.hp_current, char_now.hp_max, hp_before + amount_read)
        /\ char_now.hp_current <= char_now.hp_max
        /\ shown.hp_current = char_now.hp_current
        /\ (char_now.hp_max = 20 /\ hp_before = 18 /\ amount_read = 10) =>
              char_now.hp_current = 20

\* hp_max 20, hp_current 18, Heal with amount 10: the record holds 20
C6_Witness ==
    /\ event.type = "heal"
    /\ char_now.hp_max = 20 /\ hp_before = 18 /\ amount_read = 10
    /\ char_now.hp_current = 20

\* C7: a Damage click with an amount >= 0 leaves hp_current = max(0, hp_current
\* - amount), which is never negative: hp_current 5 and amount 10 give 0.
C7_DamageIsMax ==
    event.type = "damage" =>
        /\ amount_read >= 0
        /\ IsMax(char_now.hp_current, 0, hp_before - amount_read)
        /\ char_now.hp_current >= 0
        /\ shown.hp_current = char_now.hp_current
        /\ (hp_before = 5 /\ amount_read = 10) => char_now.hp_current = 0

\* hp_current 5, Damage with amount 10: the record holds 0
C7_Witness ==
    /\ event.type = "damage"
    /\ hp_before = 5 /\ amount_read = 10
    /\ char_now.hp_current = 0

\* C8 as claimed: when the user's last entry into the amount input was negative,
\* the amount Heal applies is 0, and Heal does not lower hp_current.
C8_NegativeAmountHealsZero ==
    (event.type = "heal" /\ amount_typed < 0) =>
        /\ amount_read = 0
        /\ char_now.hp_current >= hp_before

\* C8 as amended: the amount Heal reads is never negative, whatever was entered
\* (the input's min_value is 0; the handler itself clamps nothing), and Heal
\* never lowers the hp_current of a record that had hp_current <= hp_max.
C8_HealAmountNeverNegative ==
    event.type = "heal" =>
        /\ amount_read >= 0
        /\ hp_before <= char_now.hp_max => char_now.hp_current >= hp_before

\* Heal was clicked after a negative entry, and it raised hp_current by the
\* amount the input still held
C8_Witness ==
    /\ event.type = "heal"
    /\ amount_typed < 0
    /\ amount_read > 0
    /\ char_now.hp_current = hp_before + amount_read

\* C9: from 0 <= hp_current <= hp_max, every sequence of Heal and Damage clicks
\* with any amounts keeps 0 <= hp_current <= hp_max.
C9_HpStaysInRange ==
    /\ 0 <= char_now.hp_current
    /\ char_now.hp_current <= char_now.hp_max
    /\ PageShown => shown.hp_current = char_now.hp_current

\* a Damage larger than hp_current saturated at 0 on a record at full hit points
C9_Witness ==
    /\ event.type = "damage"
    /\ hp_before = char_now.hp_max
    /\ 0 < hp_before /\ hp_before < amount_read
    /\ char_now.hp_current = 0

\* C10: Heal at hp_current = hp_max and Damage at hp_current = 0 change nothing,
\* for any amount and however often they are repeated.
C10_NoOpAtBoundary ==
    /\ (event.type = "heal" /\ hp_before = char_now.hp_max) =>
          char_now.hp_current = hp_before
    /\ (event.type = "damage" /\ hp_before = 0) => char_now.hp_current = 0

\* Heal with a positive amount at full hit points left them unchanged
C10_Witness ==
    /\ event.type = "heal"
    /\ amount_read > 0
    /\ hp_before = char_now.hp_max
    /\ char_now.hp_current = char_now.hp_max
    /\ char_now.hp_max > 0

\* C15: normal AC minus touch AC is ac_armor + ac_shield + ac_natural for every
\* record: the DEX modifier, deflection and misc terms cancel.
C15_NormalMinusTouch ==
    PageShown =>
        shown.ac.ac_total - shown.ac.touch_ac =
            char_now.ac_armor + char_now.ac_shield + char_now.ac_natural

\* a negative DEX modifier, deflection and misc all non-zero, and a difference
\* of 2 + 1 + 2
C15_Witness ==
    /\ PageShown
    /\ char_now.dex_base = 7
    /\ char_now.ac_deflection = 1 /\ char_now.ac_misc = 2
    /\ char_now.ac_armor = 2 /\ char_now.ac_shield = 1 /\ char_now.ac_natural = 2
    /\ shown.ac.ac_total = 16 /\ shown.ac.touch_ac = 11

\* C16: the initiative shown is the modifier of the DEX total (base plus
\* racial) plus initiative_misc.
C16_Initiative ==
    PageShown =>
        shown.ini_total =
            Modifier(char_now.dex_base + char_now.dex_racial)
                + char_now.initiative_misc

\* DEX 7 - 2 = 5 (modifier -3) and initiative_misc 1 were rendered as -2
C16_Witness ==
    /\ PageShown
    /\ char_now.dex_base = 7 /\ char_now.dex_racial = -2
    /\ char_now.initiative_misc = 1
    /\ shown.ini_total = -2

\* C19: in a session started from the default record hp_max stays 0, and so
\* does hp_current, whatever Heal and Damage clicks are made.
C19_HpStaysZero ==
    Rendered =>
        /\ char_now.hp_max = 0
        /\ char_now.hp_current = 0
        /\ shown.hp_max = 0 /\ shown.hp_current = 0

\* Heal was clicked with a positive amount in the input and hit points are 0
C19_Witness ==
    /\ event.type = "heal"
    /\ amount_read > 0
    /\ char_now.hp_max = 0
    /\ char_now.hp_current = 0

\* no value occurs twice in the list
NoDuplicates(list) ==
    \A i, j \in 1..Len(list) : list[i] = list[j] => i = j

\* C11: after any sequence of adds and removes no tag list (feats, class
\* features, spells known, languages) holds a value twice, and adding a value
\* the list already holds (compared exactly, case included) leaves it as it was.
C11_TagListUnique ==
    Rendered =>
        /\ \A key \in TagKeys : NoDuplicates(session_state[key])
        /\ (event.type = "add" /\ event.val \in Elements(event.before)) =>
              session_state[event.key] = event.before

\* "Power Attack" was added to the feats a second time, next to "power attack",
\* and the list still holds it once
C11_Witness ==
    /\ event.type = "add"
    /\ event.key = "feats_tags" /\ event.val = "Power Attack"
    /\ event.before = <<"power attack", "Power Attack">>
    /\ session_state.feats_tags = <<"power attack", "Power Attack">>

\* the object the last pass handed to the download button: the tabs assign
\* nothing after line 310, so it is export_dict of the state the pass left
Exported == export_dict(session_state)

\* the scalar fields of the data model other than the class
ScalarFields ==
    {"name", "player", "alignment", "deity", "size", "race", "level", "xp",
     "age", "gender", "height", "weight", "eyes", "hair", "skin",
     "str_base", "dex_base", "con_base", "int_base", "wis_base", "cha_base",
     "str_racial", "dex_racial", "con_racial", "int_racial", "wis_racial",
     "cha_racial",
     "hp", "hp_current", "hp_max", "hp_temp", "hit_die", "bab", "speed",
     "ac_armor", "ac_shield", "ac_natural", "ac_deflection", "ac_misc",
     "fort_base", "ref_base", "will_base", "save_misc", "initiative_misc"}

\* the keys the export adds to the record's
CollectionKeys ==
    {"feats", "class_features", "skills_table", "spells_known",
     "spellbook_notes", "languages", "gear", "notes"}

\* C17 as claimed: the export has every scalar field at its top level under the
\* data model's name for it (name, player, ..., race, class, level, ...), and
\* the keys feats, class_features, skills_table, spells_known, spellbook_notes,
\* languages, gear and notes.
C17_ExportKeysAsDataModel ==
    PageShown =>
        (ScalarFields \cup {"class"} \cup CollectionKeys) \subseteq DOMAIN Exported

\* C17 as amended: the export has every scalar field at its top level under the
\* data model's name and with the record's value, except that the class is
\* under character_class and there is no key class; and it has the eight
\* collection keys, filled from the tag lists, the skills table and the notes.
C17_ExportKeys ==
    PageShown =>
        /\ \A f \in ScalarFields \cup {"character_class"} :
              f \in DOMAIN Exported /\ Exported[f] = char_now[f]
        /\ "class" \notin DOMAIN Exported
        /\ CollectionKeys \subseteq DOMAIN Exported
        /\ Exported.feats = session_state.feats_tags
        /\ Exported.class_features = session_state.features_tags
        /\ Exported.spells_known = session_state.spells_known
        /\ Exported.languages = session_state.languages
        /\ Exported.skills_table = session_state.skills_table
        /\ DOMAIN Exported.gear = {"weapons", "tools", "wealth_gp"}
        /\ DOMAIN Exported.notes = {"background", "allies", "other"}

\* a feat and a language were added and the export carries them, with the
\* class under character_class
C17_Witness ==
    /\ PageShown
    /\ Exported.character_class = "Fighter"
    /\ Exported.feats = <<"Power Attack">>
    /\ Exported.languages = <<"power attack">>
    /\ Exported.level = 1

\* the derived statistics of a record c, by the formulas of the data model
DerivedOf(c) ==
    LET str == Modifier(c.str_base + c.str_racial)
        dex == Modifier(c.dex_base + c.dex_racial)
        con == Modifier(c.con_base + c.con_racial)
        wis == Modifier(c.wis_base + c.wis_racial)
    IN  [mods |-> [ab \in ABI_CODES |-> Modifier(c[BaseOf[ab]] + c[RacialOf[ab]])],
         saves |-> [fort |-> c.fort_base + con + c.save_misc,
                    ref |-> c.ref_base + dex + c.save_misc,
                    will |-> c.will_base + wis + c.save_misc],
         ac |-> [ac_total |-> 10 + c.ac_armor + c.ac_shield + dex + c.ac_natural
                                 + c.ac_deflection + c.ac_misc,
                 touch_ac |-> 10 + dex + c.ac_deflection + c.ac_misc,
                 flat_ac |-> 10 + c.ac_armor + c.ac_shield + c.ac_natural
                                + c.ac_deflection + c.ac_misc],
         attack |-> [melee |-> c.bab + str, ranged |-> c.bab + dex,
                     grapple |-> c.bab + str],
         ini_total |-> dex + c.initiative_misc]

\* C12: whatever the earlier passes did (level edits, Heal, Damage), every
\* ability modifier, save, AC variant, attack bonus and the initiative a pass
\* shows is its formula applied to the record as that pass leaves it, and the
\* record has no field besides the data model's: no derived value is kept in it.
C12_NeverStale ==
    PageShown =>
        LET d == DerivedOf(char_now)
        IN  /\ \A ab \in ABI_CODES : shown.cards[ab].mod = d.mods[ab]
            /\ shown.saves = d.saves
            /\ shown.ac = d.ac
            /\ shown.attack = d.attack
            /\ shown.ini_total = d.ini_total
            /\ DOMAIN char_now = DOMAIN Character

\* the pass of a Heal click that raised hp_current from 0 to SheetHP showed the
\* statistics of a record with DEX 7 - 2 and bab MaxBab
C12_Witness ==
    /\ event.type = "heal"
    /\ hp_before = 0 /\ char_now.hp_current = SheetHP
    /\ char_now.dex_base = 7 /\ char_now.dex_racial = -2 /\ char_now.bab = MaxBab
    /\ shown.cards["DEX"].mod = -3
    /\ shown.ini_total = -3
    /\ shown.attack.ranged = MaxBab - 3
    /\ shown.ac.touch_ac = 7

\* C14: a pass that only computes and renders (no widget touched) leaves every
\* field of the record as it was, and shows what the pass before it showed.
C14_DerivationIsPure ==
    [][(Rendered /\ event'.type = "rerun") =>
          /\ char_now' = char_now
          /\ PageShown => shown' = shown]_vars

\* the statistics were computed again after a level edit, on a record with a
\* racial adjustment and hit points
C14_Witness ==
    /\ event.type = "rerun"
    /\ char_now.level = 2
    /\ char_now.dex_base = 14 /\ char_now.dex_racial = -2
    /\ char_now.hp_current = SheetHP
    /\ shown.cards["DEX"] = [total |-> 12, mod |-> 1]

\* the fields of the record the pass of an event assigns a new value to
WrittenBy(ev) ==
    CASE ev.type = "heal" -> {"hp_current"}
      [] ev.type = "damage" -> {"hp_current"}
      [] ev.type = "level" -> {"level"}
      [] OTHER -> {}

\* C18: the first pass of a session creates the record with the defaults (level
\* 1, the six bases 10, the six racial adjustments 0, speed 30, size "Medium",
\* every other field but the alignment at its default too); the record is
\* never removed, and every later pass keeps every field it does not itself
\* assign, the results of Heal and Damage included.
C18_RecordCreatedOnce ==
    [][/\ ~Rendered =>
            /\ Rendered'
            /\ char_now'.level = 1
            /\ \A ab \in ABI_CODES :
                  char_now'[BaseOf[ab]] = 10 /\ char_now'[RacialOf[ab]] = 0
            /\ char_now'.speed = 30
            /\ char_now'.size = "Medium"
            /\ \A f \in (DOMAIN Character) \ {"alignment"} :
                  char_now'[f] = Character[f]
       /\ Rendered =>
            /\ Rendered'
            /\ \A f \in (DOMAIN Character) \ WrittenBy(event') :
                  char_now'[f] = char_now[f]]_vars

\* a level edit found, and left, the hit points an earlier Damage had lowered
C18_Witness ==
    /\ event.type = "level"
    /\ char_now.level = 2
    /\ char_now.hp_max = SheetHP
    /\ hp_before = SheetHP - 1
    /\ char_now.hp_current = SheetHP - 1

\* the text is an integer numeral: optional whitespace, an optional sign, one
\* or more decimal digits, optional whitespace
IsNumeral(chars) ==
    \E i \in 1..Len(chars) : \E j \in i..Len(chars) :
        /\ \A k \in 1..Len(chars) : (k < i \/ k > j) => chars[k] = " "
        /\ \/ \A k \in i..j : chars[k] \in DOMAIN Digit
           \/ /\ i < j
              /\ chars[i] \in {"+", "-"}
              /\ \A k \in (i + 1)..j : chars[k] \in DOMAIN Digit

\* the value cannot be interpreted as an integer
NotAnInteger(v) ==
    \/ v.type = "NoneType"
    \/ v.type = "str" /\ ~IsNumeral(v.text)

\* C13: ability_mod raises nothing, and for a value that cannot be interpreted
\* as an integer (the empty text, a text that is not a numeral, None) it
\* returns 0.
C13_MalformedScoreGivesZero ==
    returned.called =>
        /\ ~returned.raised
        /\ NotAnInteger(returned.score) => returned.value = 0

\* ability_mod was called on the text "7.0" and returned 0
C13_Witness ==
    /\ returned.called
    /\ returned.score.type = "str"
    /\ returned.score.text = <<"7", ".", "0">>
    /\ ~returned.raised
    /\ returned.value = 0

====
